---- MODULE Spec2Model ----
(***************************************************************************)
(* Model of chunker.py: the _Chunker writer session driven by encode(),    *)
(* the header file, and the _Dechunker reader session driven by decode().  *)
(* One behaviour is one encode run into an output directory, an optional   *)
(* change made to that directory by the environment (a chunk deleted, the  *)
(* header rewritten), and one decode run over it.                          *)
(***************************************************************************)
EXTENDS Integers, Sequences, FiniteSets, TLC

\* ---------------------------------------------------------------- bounds
MaxFiles == 3        \* longest enumeration handed to encode
MaxSize  == 3        \* largest source file, in bytes
MaxMB    == 2        \* largest --chunk-size argument
MiB      == 2        \* bytes per "MB" (1024*1024 in the source, scaled down)

\* ---------------------------------------------------------------- inputs
Names == {"a", "b", "d/c"}

\* os.path.dirname of a relative name ("" when the name has no directory)
DirOf(name) == IF name = "d/c" THEN "d" ELSE ""

NameId(name) == CASE name = "a" -> 1 [] name = "b" -> 2 [] OTHER -> 3

Range(s) == {s[k] : k \in DOMAIN s}

Min(x, y) == IF x <= y THEN x ELSE y

SetMax(S) == CHOOSE x \in S : \A y \in S : y <= x

SeqsUpTo(S, m) == UNION {[1..k -> S] : k \in 0..m}

VARIABLES
  \* the input tree and the arguments of encode
  infiles,            \* collapse_tree's list of relative names
  fsize,              \* size in bytes of each source file
  mb_per_chunk,       \* the chunk-size argument
  \* _Chunker fields
  chunk_index, byte_index, this_chunk_bytes, file_positions, can_write,
  \* locals of encode / read_from_path
  i, n, src_pos, errored, enc_ret, enc_exc, reported,
  \* the chunk directory
  chunks,             \* chunk-k files: index -> bytes
  header,             \* <<>> when there is no header file, else <<record>>
  \* _Dechunker fields and locals of decode / write_n_bytes
  d_chunk_index, d_chunk_pos, d_can_read, d_bytes_per_chunk,
  d_positions, d_total, d_i, d_n, d_errored, dec_ret, dec_exc,
  \* the output directory of decode
  outdirs,            \* sub-directories that exist under outdir
  outfiles,           \* files under outdir: name -> bytes
  \* open file handles, what the environment did, and the program counter
  handles, tamper, pc

vars == <<infiles, fsize, mb_per_chunk,
          chunk_index, byte_index, this_chunk_bytes, file_positions, can_write,
          i, n, src_pos, errored, enc_ret, enc_exc, reported,
          chunks, header,
          d_chunk_index, d_chunk_pos, d_can_read, d_bytes_per_chunk,
          d_positions, d_total, d_i, d_n, d_errored, dec_ret, dec_exc,
          outdirs, outfiles, handles, tamper, pc>>

inputVars   == <<infiles, fsize, mb_per_chunk>>
chunkerVars == <<chunk_index, byte_index, this_chunk_bytes, file_positions, can_write>>
encVars     == <<i, n, src_pos, errored, enc_ret, enc_exc, reported>>
diskVars    == <<chunks, header>>
decVars     == <<d_chunk_index, d_chunk_pos, d_can_read, d_bytes_per_chunk,
                 d_positions, d_total, d_i, d_n, d_errored, dec_ret, dec_exc>>
outVars     == <<outdirs, outfiles>>

\* The bytes of a source file: every byte of the tree is distinct, so a byte
\* that lands in the wrong place or the wrong file is visible.
Content(name) == [k \in 1..fsize[name] |-> 10 * NameId(name) + k]

\* self.__bytes_per_chunk = mb_per_chunk * 1024 * 1024
BytesPerChunk(mb) == mb * MiB

EmptyFn == [x \in {} |-> 0]

PosNames(ps) == {ps[k].name : k \in DOMAIN ps}

Init ==
  /\ infiles \in SeqsUpTo(Names, MaxFiles)
  /\ fsize \in [Names -> 0..MaxSize]
  /\ \A nm \in Names \ Range(infiles) : fsize[nm] = 0
  /\ mb_per_chunk \in 0..MaxMB
  /\ chunk_index = -1 /\ byte_index = 0 /\ this_chunk_bytes = 0
  /\ file_positions = <<>> /\ can_write = TRUE
  /\ i = 1 /\ n = 0 /\ src_pos = 0 /\ errored = FALSE
  /\ enc_ret = "none" /\ enc_exc = "none" /\ reported = -1
  /\ chunks = EmptyFn /\ header = <<>>
  /\ d_chunk_index = -1 /\ d_chunk_pos = 0 /\ d_can_read = TRUE
  /\ d_bytes_per_chunk = 0
  /\ d_positions = <<>> /\ d_total = 0 /\ d_i = 1 /\ d_n = 0
  /\ d_errored = FALSE /\ dec_ret = "none" /\ dec_exc = "none"
  /\ outdirs \in SUBSET {DirOf(nm) : nm \in Range(infiles)}
  /\ "" \in outdirs
  /\ outfiles = EmptyFn
  /\ handles = {} /\ tamper = "none" /\ pc = "enc_start"

\* ------------------------------------------------------------- _Chunker

\* slip: the index is advanced twice
SwitchIndex_gap(ci) == ci + 2

\* _Chunker.__switch_to_next_chunk: close the current chunk, open the next
SwitchIndex(ci) == ci + 1

\* _Chunker.__init__ called from encode (line 119), and errored = False
ChunkerInit ==
  /\ pc = "enc_start"
  /\ chunk_index' = SwitchIndex(-1)
  /\ byte_index' = 0
  /\ file_positions' = <<>>
  /\ can_write' = TRUE
  /\ this_chunk_bytes' = 0
  /\ chunks' = (chunk_index' :> <<>>)
  /\ handles' = handles \cup {<<"chunk", chunk_index'>>}
  /\ errored' = FALSE /\ i' = 1
  /\ pc' = "enc_loop"
  /\ UNCHANGED <<inputVars, n, src_pos, enc_ret, enc_exc, reported, header,
                 decVars, outVars, tamper>>

\* slip: the offset recorded is the fill of the current chunk
PositionEntry_fill(name) == [name |-> name, off |-> this_chunk_bytes]

\* self.__file_positions[name] = self.__byte_index
PositionEntry(name) == [name |-> name, off |-> byte_index]

\* slip: the duplicate test is missing
IsDuplicate_never(name, ps) == FALSE

\* the duplicate test of read_from_path
IsDuplicate(name, ps) == name \in PosNames(ps)

\* slip: the closed test of read_from_path is missing
SessionOpen_always(cw) == TRUE

\* "if not self.__can_write" of read_from_path
SessionOpen(cw) == cw

\* for name in infiles: chunker.read_from_path(path, name), up to open(path)
ReadFromPathEnter ==
  /\ pc = "enc_loop"
  /\ i <= Len(infiles)
  /\ LET name == infiles[i] IN
       IF ~SessionOpen(can_write)
       THEN /\ errored' = TRUE /\ enc_exc' = "SessionClosed"
            /\ pc' = "enc_finally"
            /\ UNCHANGED <<file_positions, n>>
       ELSE IF IsDuplicate(name, file_positions)
       THEN /\ errored' = TRUE /\ enc_exc' = "DuplicateName"
            /\ pc' = "enc_finally"
            /\ UNCHANGED <<file_positions, n>>
       ELSE /\ file_positions' = Append(file_positions, PositionEntry(name))
            /\ n' = BytesPerChunk(mb_per_chunk) - this_chunk_bytes
            /\ pc' = "rfp_open"
            /\ UNCHANGED <<errored, enc_exc>>
  /\ UNCHANGED <<inputVars, chunk_index, byte_index, this_chunk_bytes, can_write,
                 i, src_pos, enc_ret, reported, diskVars, decVars, outVars,
                 handles, tamper>>

\* with open(path, 'rb') as file: the open succeeds
OpenSource ==
  /\ pc = "rfp_open"
  /\ src_pos' = 0
  /\ handles' = handles \cup {<<"src", infiles[i]>>}
  /\ pc' = "rfp_read"
  /\ UNCHANGED <<inputVars, chunkerVars, i, n, errored, enc_ret, enc_exc,
                 reported, diskVars, decVars, outVars, tamper>>

\* with open(path, 'rb') as file: the open raises (file gone or unreadable)
OpenSourceFails ==
  /\ pc = "rfp_open"
  /\ errored' = TRUE /\ enc_exc' = "SourceReadError"
  /\ pc' = "enc_finally"
  /\ UNCHANGED <<inputVars, chunkerVars, i, n, src_pos, enc_ret, reported,
                 diskVars, decVars, outVars, handles, tamper>>

\* file.read(n) on a regular file: the next min(n, remaining) bytes
FileRead(data, pos, cnt) == SubSeq(data, pos + 1, Min(Len(data), pos + cnt))

\* slip: the chunk is switched one byte early
ChunkFilled_early(left) == left <= 1

\* slip: the full chunk is never left
ChunkFilled_never(left) == FALSE

\* "if not n" after a write: the chunk was filled
ChunkFilled(left) == left = 0

\* one iteration of "while (b := file.read(n))", or the exit of the loop
ReadLoop ==
  /\ pc = "rfp_read"
  /\ LET name == infiles[i]
         b    == FileRead(Content(name), src_pos, n)
         left == BytesPerChunk(mb_per_chunk) - (this_chunk_bytes + Len(b))
     IN IF b = <<>>
        THEN \* loop exit: the with block closes the source, next file
             /\ handles' = handles \ {<<"src", name>>}
             /\ i' = i + 1
             /\ pc' = "enc_loop"
             /\ UNCHANGED <<chunk_index, byte_index, this_chunk_bytes, chunks,
                            n, src_pos>>
        ELSE /\ byte_index' = byte_index + Len(b)
             /\ src_pos' = src_pos + Len(b)
             /\ IF ChunkFilled(left)
                THEN /\ chunk_index' = SwitchIndex(chunk_index)
                     /\ this_chunk_bytes' = 0
                     /\ chunks' = ((chunk_index :> (chunks[chunk_index] \o b))
                                     @@ (chunk_index' :> <<>>)) @@ chunks
                     /\ handles' = (handles \ {<<"chunk", chunk_index>>})
                                     \cup {<<"chunk", chunk_index'>>}
                     /\ n' = BytesPerChunk(mb_per_chunk)
                ELSE /\ this_chunk_bytes' = this_chunk_bytes + Len(b)
                     /\ chunks' = [chunks EXCEPT ![chunk_index] = @ \o b]
                     /\ n' = left
                     /\ UNCHANGED <<chunk_index, handles>>
             /\ UNCHANGED <<i, pc>>
  /\ UNCHANGED <<inputVars, file_positions, can_write, errored, enc_ret,
                 enc_exc, reported, header, decVars, outVars, tamper>>

\* the for loop of encode is exhausted: control reaches the finally block
EncodeLoopDone ==
  /\ pc = "enc_loop"
  /\ i > Len(infiles)
  /\ pc' = "enc_finally"
  /\ UNCHANGED <<inputVars, chunkerVars, encVars, diskVars, decVars, outVars,
                 handles, tamper>>

\* slip: the header is written whatever happened
AfterClose_always(err) == "enc_header"

\* "if not errored" of the finally block: the header is written or skipped
AfterClose(err) == IF err THEN "enc_return" ELSE "enc_header"

\* finally: chunker.close()
ChunkerClose ==
  /\ pc = "enc_finally"
  /\ can_write' = FALSE
  /\ handles' = {h \in handles : h[1] # "chunk"}
  /\ pc' = AfterClose(errored)
  /\ UNCHANGED <<inputVars, chunk_index, byte_index, this_chunk_bytes,
                 file_positions, encVars, diskVars, decVars, outVars, tamper>>

\* the record json.dump writes
HeaderRecord == [bytes_per_chunk |-> BytesPerChunk(mb_per_chunk),
                 positions       |-> file_positions,
                 total_bytes     |-> byte_index]

\* if not errored: chunker.write_header_file(), and the printed chunk count
WriteHeaderFile ==
  /\ pc = "enc_header"
  /\ IF can_write
     THEN /\ enc_exc' = "NotClosed"
          /\ UNCHANGED <<header, reported>>
     ELSE /\ header' = <<HeaderRecord>>
          /\ reported' = chunk_index
          /\ UNCHANGED enc_exc
  /\ pc' = "enc_return"
  /\ UNCHANGED <<inputVars, chunkerVars, i, n, src_pos, errored, enc_ret,
                 chunks, decVars, outVars, handles, tamper>>

\* return errored
EncodeReturn ==
  /\ pc = "enc_return"
  /\ enc_ret' = IF errored THEN "error" ELSE "ok"
  /\ pc' = "enc_done"
  /\ UNCHANGED <<inputVars, chunkerVars, i, n, src_pos, errored, enc_exc,
                 reported, diskVars, decVars, outVars, handles, tamper>>

\* --------------------------------- a caller that drives _Chunker directly

\* chunker.close() called between two operations of the session
CallerClose ==
  /\ pc = "enc_loop"
  /\ can_write' = FALSE
  /\ handles' = {h \in handles : h[1] # "chunk"}
  /\ UNCHANGED <<inputVars, chunk_index, byte_index, this_chunk_bytes,
                 file_positions, encVars, diskVars, decVars, outVars, tamper, pc>>

\* chunker.write_header_file() called between two operations of the session
CallerWriteHeader ==
  /\ pc = "enc_loop"
  /\ IF can_write
     THEN /\ enc_exc' = "NotClosed" /\ errored' = TRUE
          /\ UNCHANGED header
     ELSE /\ header' = <<HeaderRecord>>
          /\ UNCHANGED <<enc_exc, errored>>
  /\ UNCHANGED <<inputVars, chunkerVars, i, n, src_pos, enc_ret, reported,
                 chunks, decVars, outVars, handles, tamper, pc>>

\* the caller catches the exception of read_from_path and goes on to the
\* next name
CallerCatch ==
  /\ pc = "enc_finally"
  /\ i' = i + 1
  /\ pc' = "enc_loop"
  /\ UNCHANGED <<inputVars, chunkerVars, n, src_pos, errored, enc_ret, enc_exc,
                 reported, diskVars, decVars, outVars, handles, tamper>>

\* ------------------------------------------- the directory between the runs

HeaderFields == {"bytes_per_chunk", "positions", "total_bytes"}

Perms(m) == {f \in [1..m -> 1..m] : \A x, y \in 1..m : f[x] = f[y] => x = y}

\* the chunk directory is handed to decode as encode left it
KeepDirectory ==
  /\ pc = "enc_done"
  /\ pc' = "dec_start"
  /\ UNCHANGED <<inputVars, chunkerVars, encVars, diskVars, decVars, outVars,
                 handles, tamper>>

\* the chunk file with the highest index is deleted before decode
DeleteLastChunk ==
  /\ pc = "enc_done"
  /\ header # <<>>
  /\ chunks' = [k \in DOMAIN chunks \ {SetMax(DOMAIN chunks)} |-> chunks[k]]
  /\ tamper' = "delete_last"
  /\ pc' = "dec_start"
  /\ UNCHANGED <<inputVars, chunkerVars, encVars, header, decVars, outVars,
                 handles>>

\* the positions mapping of the header is stored in another order
PermutePositions ==
  /\ pc = "enc_done"
  /\ header # <<>>
  /\ \E p \in Perms(Len(header[1].positions)) :
       /\ \E k \in DOMAIN p : p[k] # k
       /\ header' = <<[header[1] EXCEPT !.positions =
                         [k \in DOMAIN p |-> header[1].positions[p[k]]]]>>
  /\ tamper' = "permute"
  /\ pc' = "dec_start"
  /\ UNCHANGED <<inputVars, chunkerVars, encVars, chunks, decVars, outVars,
                 handles>>

\* one of the three fields is missing from the header record
DropHeaderField ==
  /\ pc = "enc_done"
  /\ header # <<>>
  /\ \E f \in HeaderFields :
       /\ header' = <<[x \in DOMAIN header[1] \ {f} |-> header[1][x]]>>
       /\ tamper' = f
  /\ pc' = "dec_start"
  /\ UNCHANGED <<inputVars, chunkerVars, encVars, chunks, decVars, outVars,
                 handles>>

\* the bytes_per_chunk field of the header holds another integer
ChangeCapacityField ==
  /\ pc = "enc_done"
  /\ header # <<>>
  /\ \E v \in {0, header[1].bytes_per_chunk + 1} \ {header[1].bytes_per_chunk} :
       header' = <<[header[1] EXCEPT !.bytes_per_chunk = v]>>
  /\ tamper' = "capacity"
  /\ pc' = "dec_start"
  /\ UNCHANGED <<inputVars, chunkerVars, encVars, chunks, decVars, outVars,
                 handles>>

\* ------------------------------------------------------------- decode

RECURSIVE InsertByOff(_, _)
\* insert e after every element whose offset is <= e.off (stable)
InsertByOff(sorted, e) ==
  IF sorted = <<>> THEN <<e>>
  ELSE IF sorted[Len(sorted)].off <= e.off THEN Append(sorted, e)
  ELSE Append(InsertByOff(SubSeq(sorted, 1, Len(sorted) - 1), e),
              sorted[Len(sorted)])

\* slip: the positions are used in stored order
SortedByOff_stored(ps) == ps

RECURSIVE SortedByOff(_)
\* list(sorted(file_positions.items(), key=lambda i: i[1]))
SortedByOff(ps) ==
  IF ps = <<>> THEN <<>>
  ELSE InsertByOff(SortedByOff(SubSeq(ps, 1, Len(ps) - 1)), ps[Len(ps)])

\* the three subscripts of the try block that reads the header
HeaderComplete(h) == HeaderFields \subseteq DOMAIN h

\* slip: the except clause swallows the error and decode goes on
HeaderErrorExit_continue == "dec_open"

\* except: raise ValueError(...) leaves decode
HeaderErrorExit == "dec_done"

\* decode up to "start reading!": look for the header, load and sort it
DecodeReadHeader ==
  /\ pc = "dec_start"
  /\ IF header = <<>>
     THEN /\ dec_exc' = "HeaderMissing" /\ dec_ret' = "raised"
          /\ pc' = "dec_done"
          /\ UNCHANGED <<d_bytes_per_chunk, d_positions, d_total>>
     ELSE IF ~HeaderComplete(header[1])
     THEN /\ dec_exc' = "HeaderCorrupt"
          /\ dec_ret' = IF HeaderErrorExit = "dec_done" THEN "raised" ELSE dec_ret
          /\ pc' = HeaderErrorExit
          /\ UNCHANGED <<d_bytes_per_chunk, d_positions, d_total>>
     ELSE /\ d_bytes_per_chunk' =
               BytesPerChunk(header[1].bytes_per_chunk \div MiB)
          /\ d_positions' = SortedByOff(header[1].positions)
          /\ d_total' = header[1].total_bytes
          /\ pc' = "dec_open"
          /\ UNCHANGED <<dec_exc, dec_ret>>
  /\ UNCHANGED <<inputVars, chunkerVars, encVars, diskVars, d_chunk_index,
                 d_chunk_pos, d_can_read, d_i, d_n, d_errored, outVars,
                 handles, tamper>>

\* _Dechunker.__init__ called from decode (line 243), and errored = False;
\* the open of chunk-0 is outside the try block
DechunkerInit ==
  /\ pc = "dec_open"
  /\ d_can_read' = TRUE
  /\ IF 0 \in DOMAIN chunks
     THEN /\ d_chunk_index' = 0 /\ d_chunk_pos' = 0
          /\ handles' = handles \cup {<<"rchunk", 0>>}
          /\ d_errored' = FALSE /\ d_i' = 1
          /\ pc' = "dec_loop"
          /\ UNCHANGED <<dec_exc, dec_ret>>
     ELSE /\ d_chunk_index' = 0
          /\ dec_exc' = "ChunkMissing" /\ dec_ret' = "raised"
          /\ pc' = "dec_done"
          /\ UNCHANGED <<d_chunk_pos, handles, d_errored, d_i>>
  /\ UNCHANGED <<inputVars, chunkerVars, encVars, diskVars, d_bytes_per_chunk,
                 d_positions, d_total, d_n, outVars, tamper>>

\* slip: every entry is taken to run to the end of the stream
EntryLength_toEnd(ps, total, k) == total - ps[k].off

\* the length decode computes for entry k of the sorted positions
EntryLength(ps, total, k) ==
  (IF k = Len(ps) THEN total ELSE ps[k + 1].off) - ps[k].off

\* for i in range(len(file_positions)): ... write_n_bytes(length, path), up
\* to open(outpath, 'wb')
WriteNBytesEnter ==
  /\ pc = "dec_loop"
  /\ d_i <= Len(d_positions)
  /\ IF ~d_can_read
     THEN /\ d_errored' = TRUE /\ dec_exc' = "SessionClosed"
          /\ pc' = "dec_finally"
          /\ UNCHANGED d_n
     ELSE /\ d_n' = EntryLength(d_positions, d_total, d_i)
          /\ pc' = "wnb_open"
          /\ UNCHANGED <<d_errored, dec_exc>>
  /\ UNCHANGED <<inputVars, chunkerVars, encVars, diskVars, d_chunk_index,
                 d_chunk_pos, d_can_read, d_bytes_per_chunk, d_positions,
                 d_total, d_i, dec_ret, outVars, handles, tamper>>

\* open(outpath, 'wb') needs the parent directory of outpath to exist
CanCreate(name, dirs) == DirOf(name) \in dirs

\* with open(outpath, 'wb') as file
OpenSink ==
  /\ pc = "wnb_open"
  /\ LET name == d_positions[d_i].name IN
       IF CanCreate(name, outdirs)
       THEN /\ outfiles' = (name :> <<>>) @@ outfiles
            /\ handles' = handles \cup {<<"out", name>>}
            /\ pc' = "wnb_loop"
            /\ UNCHANGED <<d_errored, dec_exc>>
       ELSE /\ d_errored' = TRUE /\ dec_exc' = "SinkWriteError"
            /\ pc' = "dec_finally"
            /\ UNCHANGED <<outfiles, handles>>
  /\ UNCHANGED <<inputVars, chunkerVars, encVars, diskVars, d_chunk_index,
                 d_chunk_pos, d_can_read, d_bytes_per_chunk, d_positions,
                 d_total, d_i, d_n, dec_ret, outdirs, tamper>>

\* slip: the chunk is read to its end, whatever is owed
ChunkRead_all(data, pos, cnt) == FileRead(data, pos, Len(data))

\* slip: a chunk is read only up to the capacity the header records
ChunkRead_capped(data, pos, cnt) ==
  FileRead(SubSeq(data, 1, Min(Len(data), d_bytes_per_chunk)), pos, cnt)

\* b = self.__chunk.read(n)
ChunkRead(data, pos, cnt) == FileRead(data, pos, cnt)

\* slip: the end of a chunk is never noticed
AtChunkEnd_never(b) == FALSE

\* "if not b" of write_n_bytes: the current chunk is exhausted
AtChunkEnd(b) == b = <<>>

\* "while n > 0" of write_n_bytes
MoreOwed(cnt) == cnt > 0

\* one iteration of "while n > 0" in write_n_bytes, or the exit of the loop
WriteLoop ==
  /\ pc = "wnb_loop"
  /\ LET name == d_positions[d_i].name
         b    == ChunkRead(chunks[d_chunk_index], d_chunk_pos, d_n)
     IN IF ~MoreOwed(d_n)
        THEN \* loop exit: the with block closes the sink, next entry
             /\ handles' = handles \ {<<"out", name>>}
             /\ d_i' = d_i + 1
             /\ pc' = "dec_loop"
             /\ UNCHANGED <<d_chunk_index, d_chunk_pos, d_n, d_errored,
                            dec_exc, outfiles>>
        ELSE IF AtChunkEnd(b)
        THEN \* _Dechunker.__switch_to_next_chunk
             /\ d_chunk_index' = d_chunk_index + 1
             /\ IF d_chunk_index' \in DOMAIN chunks
                THEN /\ d_chunk_pos' = 0
                     /\ handles' = (handles \ {<<"rchunk", d_chunk_index>>})
                                     \cup {<<"rchunk", d_chunk_index'>>}
                     /\ UNCHANGED <<d_errored, dec_exc, pc>>
                ELSE \* open raises; the with block closes the sink
                     /\ handles' = handles \ {<<"rchunk", d_chunk_index>>,
                                              <<"out", name>>}
                     /\ d_errored' = TRUE /\ dec_exc' = "ChunkMissing"
                     /\ pc' = "dec_finally"
                     /\ UNCHANGED d_chunk_pos
             /\ UNCHANGED <<d_i, d_n, outfiles>>
        ELSE /\ outfiles' = [outfiles EXCEPT ![name] = @ \o b]
             /\ d_n' = d_n - Len(b)
             /\ d_chunk_pos' = d_chunk_pos + Len(b)
             /\ UNCHANGED <<d_chunk_index, d_i, d_errored, dec_exc, handles,
                            pc>>
  /\ UNCHANGED <<inputVars, chunkerVars, encVars, diskVars, d_can_read,
                 d_bytes_per_chunk, d_positions, d_total, dec_ret, outdirs,
                 tamper>>

\* the for loop of decode is exhausted: control reaches the finally block
DecodeLoopDone ==
  /\ pc = "dec_loop"
  /\ d_i > Len(d_positions)
  /\ pc' = "dec_finally"
  /\ UNCHANGED <<inputVars, chunkerVars, encVars, diskVars, decVars, outVars,
                 handles, tamper>>

\* finally: ... return errored
DecodeReturn ==
  /\ pc = "dec_finally"
  /\ dec_ret' = IF d_errored THEN "error" ELSE "ok"
  /\ pc' = "dec_done"
  /\ UNCHANGED <<inputVars, chunkerVars, encVars, diskVars, d_chunk_index,
                 d_chunk_pos, d_can_read, d_bytes_per_chunk, d_positions,
                 d_total, d_i, d_n, d_errored, dec_exc, outVars, handles,
                 tamper>>

Next ==
  \/ ChunkerInit \/ ReadFromPathEnter \/ OpenSource \/ OpenSourceFails
  \/ ReadLoop \/ EncodeLoopDone \/ ChunkerClose \/ WriteHeaderFile
  \/ EncodeReturn
  \/ KeepDirectory \/ DeleteLastChunk \/ PermutePositions \/ DropHeaderField
  \/ ChangeCapacityField
  \/ DecodeReadHeader \/ DechunkerInit \/ WriteNBytesEnter \/ OpenSink
  \/ WriteLoop \/ DecodeLoopDone \/ DecodeReturn

Spec == Init /\ [][Next]_vars

\* the program is sequential and blocks on nothing but file I/O: whenever a
\* step is possible, one is taken
FairSpec == Spec /\ WF_vars(Next)

\* a _Chunker session whose operations are called in any order
NextApi ==
  \/ ChunkerInit \/ ReadFromPathEnter \/ OpenSource \/ OpenSourceFails
  \/ ReadLoop \/ CallerClose \/ CallerWriteHeader \/ CallerCatch

SpecApi == Init /\ [][NextApi]_vars

\* =================================================================== claims

EncPcs == {"enc_start", "enc_loop", "rfp_open", "rfp_read", "enc_finally",
           "enc_header", "enc_return", "enc_done"}

\* a step of the encode run
EncStep == pc \in EncPcs /\ pc' \in EncPcs

Capacity == BytesPerChunk(mb_per_chunk)

Unique(s) == \A j, k \in DOMAIN s : s[j] = s[k] => j = k

RECURSIVE Stream(_)
\* the logical stream of the first k enumerated files
Stream(k) == IF k = 0 THEN <<>> ELSE Stream(k - 1) \o Content(infiles[k])

RECURSIVE SizeBefore(_)
\* the sum of the sizes of the enumerated files before the k-th
SizeBefore(k) == IF k <= 1 THEN 0 ELSE SizeBefore(k - 1) + fsize[infiles[k - 1]]

Originals == [nm \in Range(infiles) |-> Content(nm)]

ChunkHandles == {h \in handles : h[1] = "chunk"}

\* ---- C1
\* C1 (round trip): when encode of uniquely named files with capacity >= 1
\* succeeded and decode ran on the untouched directory, decode reports no
\* error and the output directory holds exactly the original names, each
\* with its original bytes.
C1_RoundTrip ==
  (pc = "dec_done" /\ tamper = "none" /\ enc_ret = "ok"
     /\ Unique(infiles) /\ mb_per_chunk >= 1)
  => (dec_ret = "ok" /\ outfiles = Originals)

\* ---- C2
\* C2 (no empty or dangling chunk): once the session that wrote at least one
\* byte with capacity >= 1 is closed, no chunk file is empty, and when the
\* total is a multiple of the capacity there are exactly total/capacity
\* chunk files.
C2_NoEmptyChunk ==
  (pc \in {"enc_header", "enc_return", "enc_done"} /\ mb_per_chunk >= 1
     /\ byte_index > 0)
  => /\ \A k \in DOMAIN chunks : Len(chunks[k]) > 0
     /\ (byte_index % Capacity = 0
           => Cardinality(DOMAIN chunks) = byte_index \div Capacity)

\* ---- C3
C3_Numbered ==
  (pc \in EncPcs \ {"enc_start"} /\ mb_per_chunk >= 1)
  => /\ DOMAIN chunks = 0..chunk_index
     /\ \A k \in DOMAIN chunks :
          /\ Len(chunks[k]) <= Capacity
          /\ (k < chunk_index => Len(chunks[k]) = Capacity)

C3_CreatedInOrder ==
  (EncStep /\ mb_per_chunk >= 1)
  => /\ DOMAIN chunks \subseteq DOMAIN chunks'
     /\ \A k \in DOMAIN chunks' \ DOMAIN chunks :
          /\ \A j \in DOMAIN chunks : j < k
          /\ DOMAIN chunks' = DOMAIN chunks \cup {k}
          /\ k = Cardinality(DOMAIN chunks)

\* C3 (chunk size bound): during an encode session with capacity >= 1 the
\* chunk files are exactly 0..chunk_index, every chunk below the open one
\* holds exactly capacity bytes, none holds more, and a step creates at most
\* one chunk file, whose index is above every existing one.
C3_ChunkSizeBound == [](C3_Numbered) /\ [][C3_CreatedInOrder]_vars

C3_Witness ==
  /\ pc = "rfp_read" /\ mb_per_chunk >= 1
  /\ chunk_index >= 1 /\ this_chunk_bytes > 0

\* ---- C4
C4_AtReturn ==
  pc = "enc_done"
  => /\ (header # <<>>) <=> (i = Len(infiles) + 1 /\ enc_exc = "none")
     /\ (enc_ret = "error") <=> (header = <<>>)

C4_AfterClose ==
  (pc \in EncPcs /\ header # <<>>) => (~can_write /\ ChunkHandles = {})

C4_Abort ==
  (EncStep /\ errored)
  => UNCHANGED <<i, file_positions, byte_index, chunks, header>>

\* C4 (header is the commit point): when encode returns, the header exists
\* iff every enumerated file was consumed without error, and the error flag
\* is set iff there is no header; a header exists only once the session is
\* closed and no chunk is open; after a failure no further file is consumed.
C4_HeaderCommit == [](C4_AtReturn /\ C4_AfterClose) /\ [][C4_Abort]_vars

C4_Witness ==
  /\ pc = "enc_done" /\ enc_ret = "error" /\ header = <<>>
  /\ i >= 2 /\ i < Len(infiles) /\ byte_index > 0

\* ---- C5
C5_Rejected ==
  (pc = "enc_loop" /\ i <= Len(infiles)
     /\ \E k \in DOMAIN file_positions : file_positions[k].name = infiles[i])
  => /\ enc_exc' = "DuplicateName" /\ errored'
     /\ UNCHANGED <<file_positions, byte_index, chunk_index,
                    this_chunk_bytes, chunks>>

C5_NoHeader ==
  (pc \in EncPcs /\ ~Unique(infiles))
  => /\ header = <<>>
     /\ (pc = "enc_done" => enc_ret = "error")

\* C5 (duplicate detection): consuming a name already consumed in the session
\* raises the duplicate-name error and leaves positions, logical offset,
\* chunk index, chunk fill and chunk contents as they were; an encode whose
\* enumeration repeats a name reports failure and writes no header.
C5_DuplicateDetection == [](C5_NoHeader) /\ [][C5_Rejected]_vars

C5_Witness ==
  /\ pc = "enc_done" /\ enc_exc = "DuplicateName" /\ enc_ret = "error"
  /\ byte_index > 0 /\ chunk_index >= 1

\* ---- C6
\* C6 (missing chunk): after a successful encode and the deletion of the
\* highest-indexed chunk file (capacity >= 1), decode ends with the
\* missing-chunk error, returned as the error flag or raised, and every file
\* in the output directory has exactly the bytes of the original file of
\* that name.
C6_MissingChunk ==
  (pc = "dec_done" /\ tamper = "delete_last" /\ mb_per_chunk >= 1)
  => /\ dec_exc = "ChunkMissing" /\ dec_ret \in {"error", "raised"}
     /\ \A nm \in DOMAIN outfiles : outfiles[nm] = Content(nm)

\* ---- C7
\* what decode of the header in its original order leaves: the files are
\* written in enumeration order up to the first one whose directory is missing
FirstBlocked ==
  LET bad == {k \in DOMAIN infiles : ~(DirOf(infiles[k]) \in outdirs)}
  IN IF bad = {} THEN Len(infiles) + 1
     ELSE CHOOSE k \in bad : \A j \in bad : k <= j

OriginalOrderOutput ==
  [nm \in {infiles[k] : k \in 1..(FirstBlocked - 1)} |-> Content(nm)]

OriginalOrderReturn == IF FirstBlocked > Len(infiles) THEN "ok" ELSE "error"

StoredIndex(nm) ==
  CHOOSE x \in DOMAIN file_positions : file_positions[x].name = nm

\* the stored order keeps the written order among entries of equal offset
TiesKept ==
  LET hp == header[1].positions
  IN \A j, k \in DOMAIN hp :
       (j < k /\ hp[j].off = hp[k].off)
         => StoredIndex(hp[j].name) < StoredIndex(hp[k].name)

\* C7 as stated (offset-order independence): with capacity >= 1 and every
\* output directory present, whatever the stored order of the positions of a
\* header written by a successful encode, decode succeeds and gives each
\* name exactly its original bytes, as it does for the original order.
C7_AnyPermutation ==
  (pc = "dec_done" /\ tamper = "permute" /\ mb_per_chunk >= 1
     /\ FirstBlocked > Len(infiles))
  => (dec_ret = "ok" /\ outfiles = Originals)

\* C7 amended (offset-order independence): a stored order of the positions
\* that keeps the written order among entries sharing an offset is sorted
\* back to the written order, and decode leaves what it leaves for the
\* original order.
C7_OrderIndependence ==
  (pc = "dec_done" /\ tamper = "permute" /\ TiesKept)
  => /\ d_positions = file_positions
     /\ dec_ret = OriginalOrderReturn /\ outfiles = OriginalOrderOutput

C7_Witness ==
  /\ pc = "dec_done" /\ tamper = "permute" /\ TiesKept
  /\ Len(d_positions) = 3 /\ dec_ret = "ok"
  /\ header[1].positions[1].off > header[1].positions[3].off
  /\ \E nm \in DOMAIN outfiles : outfiles[nm] = <<>>

\* ---- C8
\* C8 (corrupt header): when one of the three fields is missing from the
\* header, decode raises the header-corrupt error, and at no point has the
\* reader opened a chunk file or decode created an output file.
C8_CorruptHeader ==
  tamper \in HeaderFields
  => /\ d_chunk_index = -1
     /\ {h \in handles : h[1] \in {"rchunk", "out"}} = {}
     /\ outfiles = EmptyFn
     /\ pc \in {"dec_start", "dec_done"}
     /\ (pc = "dec_done" => dec_exc = "HeaderCorrupt" /\ dec_ret = "raised")

C8_Witness ==
  /\ pc = "dec_done" /\ tamper = "total_bytes" /\ dec_exc = "HeaderCorrupt"
  /\ byte_index > 0 /\ 1 \in DOMAIN chunks

\* ---- C9
\* C9 (chunk layout): after a successful encode with capacity C >= 1 of files
\* whose concatenation is S, every chunk needed to hold S exists, chunk k
\* holds S[k*C .. min((k+1)*C, |S|) - 1], and the header holds |S| and, for
\* each file in order, the offset of its first byte in S.
C9_ChunkLayout ==
  (pc = "enc_done" /\ enc_ret = "ok" /\ mb_per_chunk >= 1)
  => LET S == Stream(Len(infiles))
         C == mb_per_chunk * MiB
     IN /\ \A k \in 0..((Len(S) - 1) \div C) : Len(S) > 0 => k \in DOMAIN chunks
        /\ \A k \in DOMAIN chunks :
             chunks[k] = SubSeq(S, k * C + 1, Min((k + 1) * C, Len(S)))
        /\ header # <<>>
        /\ header[1].bytes_per_chunk = C
        /\ header[1].total_bytes = Len(S)
        /\ header[1].positions =
             [k \in DOMAIN infiles |->
                [name |-> infiles[k], off |-> SizeBefore(k)]]

\* the scenario of the spec at scale: three files, the second one split
\* between chunk-0 and chunk-1
C9_Witness ==
  /\ pc = "enc_done" /\ enc_ret = "ok" /\ mb_per_chunk = 2
  /\ infiles = <<"a", "b", "d/c">>
  /\ fsize["a"] = 2 /\ fsize["b"] = 3 /\ fsize["d/c"] = 1
  /\ header[1].total_bytes = 6
  /\ Len(chunks[0]) = 4 /\ Len(chunks[1]) = 2

\* ---- C10
ConsumingEmpty ==
  /\ pc \in {"enc_loop", "rfp_open", "rfp_read"}
  /\ i <= Len(infiles)
  /\ fsize[infiles[i]] = 0

C10_Frame ==
  ConsumingEmpty
  => /\ UNCHANGED <<byte_index, chunk_index, this_chunk_bytes, chunks>>
     /\ \/ file_positions' = file_positions
        \/ file_positions' =
             Append(file_positions, [name |-> infiles[i], off |-> byte_index])
     /\ (i' = i + 1
           => file_positions[Len(file_positions)] =
                [name |-> infiles[i], off |-> byte_index])

C10_SharedOffset ==
  pc \in EncPcs
  => \A k \in DOMAIN file_positions :
       fsize[file_positions[k].name] = 0
         => file_positions[k].off =
              IF k < Len(file_positions) THEN file_positions[k + 1].off
              ELSE byte_index

\* C10 (zero-length file): consuming an empty file appends the entry
\* (name, current logical offset) and leaves logical offset, chunk index,
\* chunk fill and every chunk file as they were; the entry's offset equals
\* the offset of the next consumed file, or the total when it is the last.
C10_ZeroLength == [](C10_SharedOffset) /\ [][C10_Frame]_vars

C10_Witness ==
  /\ pc = "enc_done" /\ enc_ret = "ok" /\ Len(file_positions) = 3
  /\ fsize[file_positions[2].name] = 0
  /\ file_positions[2].off > 0 /\ chunk_index >= 1
  /\ file_positions[3].off = file_positions[2].off
  /\ byte_index > file_positions[3].off

\* ---- C11
C11_NoEffect ==
  ~can_write
  => /\ ~can_write'
     /\ UNCHANGED <<file_positions, byte_index, chunk_index,
                    this_chunk_bytes, chunks>>
     /\ {h \in handles' : h[1] \in {"src", "chunk"}} = {}
     /\ pc' \in {"enc_loop", "enc_finally"}
     /\ (pc = "enc_loop" /\ pc' = "enc_finally"
           => enc_exc' = "SessionClosed" /\ errored')

\* C11 (session closed): once close has been called, every later
\* read_from_path raises the session-closed error and records no position,
\* writes no byte and opens neither a source nor a chunk; and a header file
\* exists only when the session has been closed.
C11_SessionClosed ==
  [](header # <<>> => ~can_write) /\ [][C11_NoEffect]_vars

C11_Witness ==
  /\ pc = "enc_finally" /\ enc_exc = "SessionClosed" /\ ~can_write
  /\ byte_index > 0 /\ header # <<>> /\ i <= Len(infiles)

\* ---- C12
\* C12 (resource safety): when encode has returned, and when decode has
\* returned or raised, no chunk, source or destination file handle opened by
\* the session is still open.
C12_ResourceSafety == pc \in {"enc_done", "dec_start", "dec_done"} => handles = {}

\* ---- C13
RECURSIVE ChunksBefore(_)
\* the chunk files below index k, concatenated in index order
ChunksBefore(k) ==
  IF k <= 0 THEN <<>>
  ELSE ChunksBefore(k - 1) \o (IF (k - 1) \in DOMAIN chunks
                                 THEN chunks[k - 1] ELSE <<>>)

AllChunks == ChunksBefore(Cardinality(DOMAIN chunks))

\* the reader's position in the concatenation of the chunk files
ReadPos == Len(ChunksBefore(d_chunk_index)) + d_chunk_pos

\* the length asked of the k-th write_n_bytes call
Requested(k) == EntryLength(d_positions, d_total, k)

RECURSIVE StartOf(_)
\* the sum of the lengths asked before the k-th call
StartOf(k) == IF k <= 1 THEN 0 ELSE StartOf(k - 1) + Requested(k - 1)

\* C13 (reader exactness): every completed write_n_bytes(n) call has given
\* its file exactly the n bytes of the concatenated chunk files that follow
\* those of the calls before it, the read position is the sum of the lengths
\* delivered so far, and a call in progress holds a prefix of its range and
\* never more than it was asked for.
C13_ReaderExact ==
  pc \in {"dec_loop", "wnb_open", "wnb_loop"}
  => /\ \A k \in 1..(d_i - 1) :
          outfiles[d_positions[k].name] =
            SubSeq(AllChunks, StartOf(k) + 1, StartOf(k) + Requested(k))
     /\ ReadPos = StartOf(d_i)
                    + (IF pc = "wnb_loop"
                       THEN Len(outfiles[d_positions[d_i].name]) ELSE 0)
     /\ (pc = "wnb_loop"
           => /\ outfiles[d_positions[d_i].name] =
                   SubSeq(AllChunks, StartOf(d_i) + 1, ReadPos)
              /\ Len(outfiles[d_positions[d_i].name]) + d_n = Requested(d_i)
              /\ d_n >= 0)

\* three calls done, the second of which crossed a chunk boundary
C13_Witness ==
  /\ pc = "dec_loop" /\ d_i = 4 /\ d_chunk_index >= 1
  /\ Requested(1) > 0 /\ Requested(2) > 0 /\ Requested(3) > 0
  /\ StartOf(2) < Len(chunks[0])
  /\ StartOf(3) > Len(chunks[0])

\* ---- C14
\* C14 (offset accounting): with capacity >= 1, the offset recorded for each
\* name is the sum of the sizes of the files consumed before it, offsets do
\* not decrease in consume order, between two consume calls the running
\* total is the sum of the sizes consumed, and the length decode derives for
\* each entry of the untouched header is the size of that file.
C14_OffsetAccounting ==
  mb_per_chunk >= 1
  => /\ \A k \in DOMAIN file_positions :
          /\ file_positions[k].off = SizeBefore(k)
          /\ (k > 1 => file_positions[k - 1].off <= file_positions[k].off)
     /\ (pc = "enc_loop" => byte_index = SizeBefore(i))
     /\ (pc = "enc_done" /\ enc_ret = "ok"
           => \A k \in DOMAIN file_positions :
                EntryLength(file_positions, byte_index, k)
                  = fsize[file_positions[k].name])
     /\ (pc = "wnb_open" /\ tamper = "none"
           => d_n = fsize[d_positions[d_i].name])

C14_Witness ==
  /\ pc = "wnb_open" /\ tamper = "none" /\ d_i = 3 /\ d_n > 0
  /\ fsize[d_positions[1].name] > 0 /\ fsize[d_positions[2].name] > 0
  /\ d_positions[3].off > mb_per_chunk * MiB

\* ---- C15
\* C15 (parent directories): when decode has run over the untouched output
\* of a successful encode, the parent directory of every header entry exists
\* under the output directory and no output file failed to open.
C15_ParentDirs ==
  (pc = "dec_done" /\ tamper = "none" /\ enc_ret = "ok")
  => /\ \A nm \in PosNames(d_positions) : DirOf(nm) \in outdirs
     /\ dec_exc # "SinkWriteError"

\* ---- C17
\* C17 (reported chunk count): on a successful encode the chunk count that
\* is reported equals the number of chunk files in the output directory.
C17_ReportedCount ==
  (pc = "enc_done" /\ enc_ret = "ok") => reported = Cardinality(DOMAIN chunks)

\* ---- C18
\* C18 (capacity zero is disallowed): an encode with capacity 0 reports
\* failure and writes no header.
C18_CapacityZero ==
  (pc = "enc_done" /\ mb_per_chunk = 0) => (enc_ret = "error" /\ header = <<>>)

\* ---- C19
\* C19 (writer counter invariant): in a writer session with capacity C >= 1
\* the fill f of the open chunk satisfies 0 <= f < C, the logical offset is
\* chunk index * C + f, and the count asked of the source is at least 1 when
\* a file is opened and at every read.
C19_WriterCounters ==
  (pc \in EncPcs \ {"enc_start"} /\ mb_per_chunk >= 1)
  => /\ 0 <= this_chunk_bytes /\ this_chunk_bytes < mb_per_chunk * MiB
     /\ byte_index = chunk_index * (mb_per_chunk * MiB) + this_chunk_bytes
     /\ this_chunk_bytes = Len(chunks[chunk_index])
     /\ (pc \in {"rfp_open", "rfp_read"} => n >= 1)

C19_Witness ==
  /\ pc = "rfp_open" /\ mb_per_chunk = 1 /\ chunk_index = 2
  /\ this_chunk_bytes = 1 /\ n = 1

\* ---- C20
\* the first entry of the header, in sorted order, whose directory is missing
FirstBlockedEntry ==
  LET ps  == SortedByOff(header[1].positions)
      bad == {k \in DOMAIN ps : ~(DirOf(ps[k].name) \in outdirs)}
  IN IF bad = {} THEN Len(ps) + 1
     ELSE CHOOSE k \in bad : \A j \in bad : k <= j

\* what the chunk files, the positions and total_bytes of the header and the
\* output directory determine: the entries before the first blocked one,
\* each with its range of the concatenated chunk files
CapacityFreeOutput ==
  LET ps == SortedByOff(header[1].positions)
      tb == header[1].total_bytes
  IN [nm \in {ps[k].name : k \in 1..(FirstBlockedEntry - 1)} |->
        LET k == CHOOSE x \in DOMAIN ps : ps[x].name = nm
        IN SubSeq(AllChunks, ps[k].off + 1,
                  IF k = Len(ps) THEN tb ELSE ps[k + 1].off)]

CapacityFreeReturn ==
  IF FirstBlockedEntry > Len(header[1].positions) THEN "ok" ELSE "error"

\* C20 (decode ignores the capacity field): over the same chunk files, the
\* output files and the error flag of decode are what the positions, the
\* total and the chunk files determine, whether bytes_per_chunk holds the
\* value encode wrote or another integer: two headers that differ only in
\* that field decode alike.
C20_CapacityIgnored ==
  (pc = "dec_done" /\ tamper \in {"none", "capacity"} /\ header # <<>>)
  => (dec_ret = CapacityFreeReturn /\ outfiles = CapacityFreeOutput)

C20_Witness ==
  /\ pc = "dec_done" /\ tamper = "capacity" /\ dec_ret = "ok"
  /\ header[1].bytes_per_chunk = 0 /\ mb_per_chunk = 1
  /\ d_chunk_index >= 1 /\ Len(d_positions) >= 2
  /\ \E nm \in DOMAIN outfiles : Len(outfiles[nm]) = 3

\* ---- C16
\* the chunk files hold fewer bytes past the read position than are owed
Starved == pc = "wnb_loop" /\ d_n > Len(AllChunks) - ReadPos

\* C16 (termination): every read_from_path call ends, every write_n_bytes
\* call ends, a write_n_bytes call that is owed more bytes than the chunk
\* files still hold ends in the missing-chunk error, and decode ends, either
\* with every entry written or with an error.
C16_Termination ==
  /\ (pc = "rfp_open") ~> (pc \in {"enc_loop", "enc_finally"})
  /\ (pc = "wnb_open") ~> (pc \in {"dec_loop", "dec_finally"})
  /\ Starved ~> (pc = "dec_finally" /\ dec_exc = "ChunkMissing")
  /\ <>(pc = "dec_done"
          /\ \/ dec_ret \in {"error", "raised"}
             \/ dec_ret = "ok" /\ d_i = Len(d_positions) + 1)

C16_Witness ==
  /\ pc = "dec_finally" /\ dec_exc = "ChunkMissing" /\ tamper = "delete_last"
  /\ d_i = 2 /\ d_n > 0 /\ d_chunk_index = 2
====
